---------------------------- MODULE Spec2Model ----------------------------
(***************************************************************************)
(* Battery-aware task scheduling for a smartwatch: the greedy charger, the *)
(* segmented (look-ahead) charge planner and the upgraded priority         *)
(* scheduler, modelled step by step from their Python source.              *)
(*                                                                         *)
(* Numbers.  The Python code computes with floats; the model computes with *)
(* exact numbers on a grid.  Energy (capacity, charge, duration x drain)   *)
(* is counted in grid units, and the tolerance epsilon = 1e-9 of the       *)
(* segmented planner is Epsilon grid units, so inputs that differ by no    *)
(* more than the tolerance are inputs of the model.  A time is kept as an  *)
(* integer numerator over a denominator fixed by the inputs (TimeDen for   *)
(* the greedy and segmented schedulers, PTimeDen for the priority          *)
(* scheduler), and the priority scheduler's charge as a numerator over     *)
(* FlDen, because its health cap full_limit x capacity is a fraction.      *)
(* Floating-point rounding is modelled in one place, where the code        *)
(* compares its outcome exactly: the priority scheduler's charge update    *)
(* battery += idle_time * charge_rate * charge_efficiency, which divides   *)
(* and multiplies back and lands on, just below or just above the target.  *)
(* The charge of that scheduler is therefore a grid value plus p_err       *)
(* units in the last place, and its time a grid value plus p_terr; such a  *)
(* unit is smaller than any grid difference.  All other arithmetic is      *)
(* exact.                                                                  *)
(***************************************************************************)
EXTENDS Integers, Sequences, FiniteSets, TLC

\* ------------------------------------------------------------- bounds
MaxTasks == 2
MaxCapacity == 2

\* task durations, drain rates, charge rates (0: charging is impossible;
\* every caller reads a rate >= 0), and the fractions
\* <<numerator, denominator>> drawn for charge_efficiency and full_limit
Durations == {1, 2}
DrainRates == {0, 1, 2}
ChargeRates == {0, 1, 8}
Efficiencies == {<<1, 1>>, <<1, 2>>}
FullLimits == {<<1, 1>>, <<1, 2>>}

\* epsilon = 1e-9, in grid units of energy
Epsilon == 1

Priorities == {"high", "med", "low"}

VARIABLES
    mode,               \* "all": the three schedulers, one after the other, on one battery and
                        \* task list (every task high, lossless charging, no health cap);
                        \* "v2": the priority scheduler alone, on any priorities and fractions
    battery_capacity, initial_battery, charge_rate, tasks,
    charge_efficiency,  \* a fraction <<numerator, denominator>> in (0, 1]
    full_limit,         \* a fraction <<numerator, denominator>> in (0, 1]
    g_pc, g_i, g_battery, g_time, g_result,
    s_pc, s_i, s_battery, s_time, s_result,
    p_pc, p_i, p_battery, p_time, p_result,
    p_err, p_terr,      \* units in the last place on top of p_battery and of p_time
    p_iters,            \* history: iterations of the priority scheduler's while loop so far
    g_log, s_log, p_log, \* history: what each scheduler has done so far, one Event per step
    v_pc, v_result      \* validate_inputs: its position and what it returned

inputs == <<mode, battery_capacity, initial_battery, charge_rate, tasks,
            charge_efficiency, full_limit>>
gvars == <<g_pc, g_i, g_battery, g_time, g_result, g_log>>
svars == <<s_pc, s_i, s_battery, s_time, s_result, s_log>>
pvars == <<p_pc, p_i, p_battery, p_time, p_result, p_err, p_terr, p_iters, p_log>>
vvars == <<v_pc, v_result>>
vars == <<inputs, gvars, svars, pvars, vvars>>

\* ------------------------------------------------------------ helpers
Min(a, b) == IF a <= b THEN a ELSE b
Max(a, b) == IF a >= b THEN a ELSE b

n_tasks == Len(tasks)

\* duration * drain_rate
Energy(t) == t.duration * t.drain_rate

\* Greedy and segmented times are numerators over TimeDen (a charge of q
\* units takes q / charge_rate; no charging is ever timed at rate <= 0).
TimeDen == IF charge_rate > 0 THEN charge_rate ELSE 1

\* The priority scheduler's charge is a numerator over FlDen
FlDen == full_limit[2]

\* Priority times are numerators over PTimeDen: a charge of q / FlDen units
\* takes (q / FlDen) / charge_efficiency / charge_rate, which is
\* q * charge_efficiency[2] / PTimeDen.
PTimeDen == FlDen * charge_efficiency[1] * TimeDen

\* round(x, places) of the exact number num / den, as an integer count of
\* 10^-places (scale = 10^places): to nearest, ties to even.
RoundTo(num, den, scale) ==
    LET x == num * scale
        q == x \div den
        r == x % den
    IN  IF 2 * r < den THEN q
        ELSE IF 2 * r > den THEN q + 1
        ELSE IF q % 2 = 0 THEN q ELSE q + 1

\* One step of a scheduler, as the history records it: op is "charge", "run",
\* "skip", "fail" (a return of -1), "nocharge" (the priority scheduler's
\* continue of line 86) or "raise"; at is the task cursor, j the index the
\* look-ahead stopped at and energy the energy it planned for (a charge
\* only); battery and time are the charge and the total time after the step.
Event(op, at, j, energy, battery, time) ==
    [op |-> op, at |-> at, j |-> j, energy |-> energy,
     battery |-> battery, time |-> time]

\* A step of the priority scheduler: as Event, with the units in the last
\* place of the charge (err) and of the time (terr) after the step.
PriEvent(op, at, j, energy, battery, err, time, terr) ==
    [op |-> op, at |-> at, j |-> j, energy |-> energy,
     battery |-> battery, time |-> time, err |-> err, terr |-> terr]

\* x + dx units in the last place >= y, and < y, for grid values x and y
AtLeast(x, dx, y) == x > y \/ (x = y /\ dx >= 0)
Below(x, dx, y) == ~AtLeast(x, dx, y)

\* round(x, places) of num / den plus tiny units in the last place: the
\* units decide only a tie
RoundNear(num, tiny, den, scale) ==
    LET x == num * scale
        q == x \div den
        r == x % den
    IN  IF 2 * r < den THEN q
        ELSE IF 2 * r > den THEN q + 1
        ELSE IF tiny > 0 THEN q + 1
        ELSE IF tiny < 0 THEN q
        ELSE IF q % 2 = 0 THEN q ELSE q + 1

\* The sentinel -1.0 in tenths (greedy, segmented) and in hundredths (priority)
Infeasible1 == 0 - 10
Infeasible2 == 0 - 100

\* What validate_inputs returns: None, or an error string. An error about a
\* task is the text after "Task <number> " with the number kept beside it.
NoError == [msg |-> "None", task |-> 0]

\* ------------------------------------------------------------- inputs
\* Tasks of the shortest duration at every drain rate, and longer tasks at
\* the highest drain rate (these exceed every capacity).
TaskSet(pris) ==
    {t \in [duration : Durations, drain_rate : DrainRates, priority : pris] :
        t.duration = 1 \/ \A d \in DrainRates : d <= t.drain_rate}

TaskSeqs(pris) == UNION {[1..n -> TaskSet(pris)] : n \in 0..MaxTasks}

Init ==
    /\ mode \in {"all", "v2"}
    /\ battery_capacity \in 1..MaxCapacity
    /\ initial_battery \in 0..battery_capacity
    /\ charge_rate \in ChargeRates
    /\ IF mode = "all"
       THEN /\ tasks \in TaskSeqs({"high"})
            /\ charge_efficiency = <<1, 1>>
            /\ full_limit = <<1, 1>>
       ELSE /\ tasks \in TaskSeqs(Priorities)
            /\ charge_efficiency \in Efficiencies
            /\ full_limit \in FullLimits
    /\ g_pc = IF mode = "all" THEN "call" ELSE "off"
    /\ s_pc = IF mode = "all" THEN "call" ELSE "off"
    /\ p_pc = "call"
    /\ g_i = 1 /\ g_battery = 0 /\ g_time = 0 /\ g_result = 0
    /\ s_i = 1 /\ s_battery = 0 /\ s_time = 0 /\ s_result = 0
    /\ p_i = 1 /\ p_battery = 0 /\ p_time = 0 /\ p_result = 0 /\ p_iters = 0
    /\ p_err = 0 /\ p_terr = 0
    /\ g_log = <<>> /\ s_log = <<>> /\ p_log = <<>>
    /\ v_pc = "off" /\ v_result = NoError

\* ------------------------------------------------------------- greedy
\* duration * drain_rate > battery_capacity
GreedyExceeds(t) == Energy(t) > battery_capacity

\* mutant: the greedy algorithm charges to a full battery
OptimalStart_Full(t) == battery_capacity

\* optimal_start = min(energy_needed, battery_capacity)
OptimalStart(t) == Min(Energy(t), battery_capacity)

\* mutant: the greedy algorithm charges before every task, whatever its charge
GreedyMustCharge_Always(b, t) == TRUE

\* current_battery < optimal_start
GreedyMustCharge(b, t) == b < OptimalStart(t)

\* mutant: the rate check made strict
GreedyCannotCharge_Strict == charge_rate < 0

\* line 17: if charge_rate <= 0
GreedyCannotCharge == charge_rate <= 0

\* lines 10-21: the empty check, the capacity pre-check, the rate check
GreedyStart ==
    /\ g_pc = "call"
    /\ IF tasks = <<>>
       THEN /\ g_result' = 0 /\ g_pc' = "done"
            /\ UNCHANGED <<g_i, g_battery, g_time>>
       ELSE IF \E k \in 1..n_tasks : GreedyExceeds(tasks[k])
       THEN /\ g_result' = Infeasible1 /\ g_pc' = "done"
            /\ UNCHANGED <<g_i, g_battery, g_time>>
       ELSE IF GreedyCannotCharge
       THEN /\ g_result' = Infeasible1 /\ g_pc' = "done"
            /\ UNCHANGED <<g_i, g_battery, g_time>>
       ELSE /\ g_time' = 0
            /\ g_battery' = initial_battery
            /\ g_i' = 1
            /\ g_pc' = "loop"
            /\ UNCHANGED g_result
    /\ UNCHANGED <<g_log, inputs, svars, pvars, vvars>>

\* lines 24-30: charge to optimal_start when below it
GreedyCharge ==
    /\ g_pc = "loop" /\ g_i <= n_tasks
    /\ IF GreedyMustCharge(g_battery, tasks[g_i])
       THEN /\ g_time' = g_time + (OptimalStart(tasks[g_i]) - g_battery)
            /\ g_battery' = OptimalStart(tasks[g_i])
            /\ g_log' = Append(g_log, Event("charge", g_i, g_i + 1, Energy(tasks[g_i]),
                                            g_battery', g_time'))
       ELSE UNCHANGED <<g_time, g_battery, g_log>>
    /\ g_pc' = "run"
    /\ UNCHANGED <<g_i, g_result, inputs, svars, pvars, vvars>>

\* lines 32-33: run the task
GreedyRun ==
    /\ g_pc = "run"
    /\ g_time' = g_time + tasks[g_i].duration * TimeDen
    /\ g_battery' = g_battery - Energy(tasks[g_i])
    /\ g_i' = g_i + 1
    /\ g_pc' = "loop"
    /\ g_log' = Append(g_log, Event("run", g_i, g_i, 0, g_battery', g_time'))
    /\ UNCHANGED <<g_result, inputs, svars, pvars, vvars>>

\* line 35: return round(total_time, 1)
GreedyReturn ==
    /\ g_pc = "loop" /\ g_i > n_tasks
    /\ g_result' = RoundTo(g_time, TimeDen, 10)
    /\ g_pc' = "done"
    /\ UNCHANGED <<g_i, g_battery, g_time, g_log, inputs, svars, pvars, vvars>>

\* ---------------------------------------------------------- segmented
\* drain > battery_capacity + epsilon
SegExceeds(e) == e > battery_capacity + Epsilon

\* mutant: the run check without the tolerance
SegCanRun_Exact(b, e) == b >= e

\* battery >= drain - epsilon
SegCanRun(b, e) == b >= e - Epsilon

\* energy_needed + task_energy > battery_capacity + epsilon
SegOverflows(energy_needed, task_energy) ==
    energy_needed + task_energy > battery_capacity + Epsilon

\* lines 71-85: the look-ahead from task j with energy_needed accumulated so
\* far; fail is the return -1.0 of line 79.
RECURSIVE SegScan(_, _)
SegScan(j, energy_needed) ==
    IF j > n_tasks
    THEN [fail |-> FALSE, energy |-> energy_needed, j |-> j]
    ELSE IF SegExceeds(Energy(tasks[j]))
    THEN [fail |-> TRUE, energy |-> energy_needed, j |-> j]
    ELSE IF SegOverflows(energy_needed, Energy(tasks[j]))
    THEN [fail |-> FALSE, energy |-> energy_needed, j |-> j]
    ELSE SegScan(j + 1, energy_needed + Energy(tasks[j]))

\* target = min(energy_needed, battery_capacity)
SegTarget(energy_needed) == Min(energy_needed, battery_capacity)

\* line 46: if charge_rate <= 0
SegCannotCharge == charge_rate <= 0

\* mutant: the rate check moved before the empty check
SegStart_RateFirst ==
    /\ s_pc = "call" /\ g_pc = "done"
    /\ IF SegCannotCharge
       THEN /\ s_result' = Infeasible1 /\ s_pc' = "done"
            /\ UNCHANGED <<s_i, s_battery, s_time>>
       ELSE IF tasks = <<>>
       THEN /\ s_result' = 0 /\ s_pc' = "done"
            /\ UNCHANGED <<s_i, s_battery, s_time>>
       ELSE /\ s_battery' = initial_battery
            /\ s_time' = 0
            /\ s_i' = 1
            /\ s_pc' = "loop"
            /\ UNCHANGED s_result
    /\ UNCHANGED <<s_log, inputs, gvars, pvars, vvars>>

\* lines 43-56; the callers run it after the greedy algorithm has returned
SegStart ==
    /\ s_pc = "call" /\ g_pc = "done"
    /\ IF tasks = <<>>
       THEN /\ s_result' = 0 /\ s_pc' = "done"
            /\ UNCHANGED <<s_i, s_battery, s_time>>
       ELSE IF SegCannotCharge
       THEN /\ s_result' = Infeasible1 /\ s_pc' = "done"
            /\ UNCHANGED <<s_i, s_battery, s_time>>
       ELSE /\ s_battery' = initial_battery
            /\ s_time' = 0
            /\ s_i' = 1
            /\ s_pc' = "loop"
            /\ UNCHANGED s_result
    /\ UNCHANGED <<s_log, inputs, gvars, pvars, vvars>>

\* lines 62-63
SegFail ==
    /\ s_pc = "loop" /\ s_i <= n_tasks
    /\ SegExceeds(Energy(tasks[s_i]))
    /\ s_result' = Infeasible1 /\ s_pc' = "done"
    /\ s_log' = Append(s_log, Event("fail", s_i, s_i, 0, s_battery, s_time))
    /\ UNCHANGED <<s_i, s_battery, s_time, inputs, gvars, pvars, vvars>>

\* mutant: a run leaves the cursor on the task, which is then run again
SegRun_Again ==
    /\ s_pc = "loop" /\ s_i <= n_tasks
    /\ ~SegExceeds(Energy(tasks[s_i]))
    /\ SegCanRun(s_battery, Energy(tasks[s_i]))
    /\ s_battery' = s_battery - Energy(tasks[s_i])
    /\ s_time' = s_time + tasks[s_i].duration * TimeDen
    /\ s_i' = s_i
    /\ s_log' = Append(s_log, Event("run", s_i, s_i, 0, s_battery', s_time'))
    /\ UNCHANGED <<s_pc, s_result, inputs, gvars, pvars, vvars>>

\* lines 65-68
SegRun ==
    /\ s_pc = "loop" /\ s_i <= n_tasks
    /\ ~SegExceeds(Energy(tasks[s_i]))
    /\ SegCanRun(s_battery, Energy(tasks[s_i]))
    /\ s_battery' = s_battery - Energy(tasks[s_i])
    /\ s_time' = s_time + tasks[s_i].duration * TimeDen
    /\ s_i' = s_i + 1
    /\ s_log' = Append(s_log, Event("run", s_i, s_i, 0, s_battery', s_time'))
    /\ UNCHANGED <<s_pc, s_result, inputs, gvars, pvars, vvars>>

\* lines 69-93: look ahead, then charge once for the batch
SegCharge ==
    /\ s_pc = "loop" /\ s_i <= n_tasks
    /\ ~SegExceeds(Energy(tasks[s_i]))
    /\ ~SegCanRun(s_battery, Energy(tasks[s_i]))
    /\ LET scan == SegScan(s_i, 0)
           target == SegTarget(scan.energy)
           charge_needed == target - s_battery
       IN  IF scan.fail
           THEN /\ s_result' = Infeasible1 /\ s_pc' = "done"
                /\ s_log' = Append(s_log, Event("fail", s_i, scan.j, 0, s_battery, s_time))
                /\ UNCHANGED <<s_battery, s_time>>
           ELSE /\ s_time' = s_time + charge_needed
                /\ s_battery' = Min(s_battery + charge_needed, battery_capacity)
                /\ s_log' = Append(s_log, Event("charge", s_i, scan.j, scan.energy,
                                                s_battery', s_time'))
                /\ UNCHANGED <<s_pc, s_result>>
    /\ UNCHANGED <<s_i, inputs, gvars, pvars, vvars>>

\* line 95: return round(total_time, 1)
SegReturn ==
    /\ s_pc = "loop" /\ s_i > n_tasks
    /\ s_result' = RoundTo(s_time, TimeDen, 10)
    /\ s_pc' = "done"
    /\ UNCHANGED <<s_i, s_battery, s_time, s_log, inputs, gvars, pvars, vvars>>

\* ----------------------------------------------------------- priority
\* energy_needed > battery_capacity
PriExceeds(e) == e > battery_capacity

\* mutant: the segmented planner's tolerance copied into the run check
PriCanRun_Eps(b, err, e) == b >= e * FlDen - Epsilon

\* battery >= energy_needed (b is a numerator over FlDen, err the units in
\* the last place on top of it)
PriCanRun(b, err, e) == AtLeast(b, err, e * FlDen)

\* cap_limit = full_limit * battery_capacity, a numerator over FlDen
CapLimit == full_limit[1] * battery_capacity

\* mutant: a med task is included whatever the charge
PriIncluded_MedAlways(t, b, err) == t.priority # "low"

\* lines 67-72: whether task t's energy is added to total_energy
PriIncluded(t, b, err) ==
    \/ t.priority = "high"
    \/ t.priority = "med" /\ Below(b, err, CapLimit)

\* lines 59-73: the look-ahead from task j with total_energy accumulated so far
RECURSIVE PriScan(_, _, _, _)
PriScan(j, total_energy, b, err) ==
    IF j > n_tasks
    THEN [energy |-> total_energy, j |-> j]
    ELSE IF total_energy + Energy(tasks[j]) > battery_capacity
    THEN [energy |-> total_energy, j |-> j]
    ELSE IF PriIncluded(tasks[j], b, err)
    THEN PriScan(j + 1, total_energy + Energy(tasks[j]), b, err)
    ELSE PriScan(j + 1, total_energy, b, err)

\* base_target = min(max(total_energy, energy_needed), battery_capacity)
BaseTarget(total_energy, energy_needed) ==
    Min(Max(total_energy, energy_needed), battery_capacity)

\* mutant: the health cap is never applied
PriTarget_NoCap(total_energy, energy_needed) ==
    BaseTarget(total_energy, energy_needed) * FlDen

\* mutant: base_target = min(total_energy, battery_capacity), the target
\* without the floor at the immediate task's energy
PriTarget_NoFloor(total_energy, energy_needed) ==
    IF energy_needed * FlDen > CapLimit
    THEN Min(total_energy, battery_capacity) * FlDen
    ELSE Min(Min(total_energy, battery_capacity) * FlDen, CapLimit)

\* mutant: the health cap is applied also when the immediate task needs more
PriTarget_CapAlways(total_energy, energy_needed) ==
    Min(BaseTarget(total_energy, energy_needed) * FlDen, CapLimit)

\* lines 76-82: the charge target, a numerator over FlDen
PriTarget(total_energy, energy_needed) ==
    IF energy_needed * FlDen > CapLimit
    THEN BaseTarget(total_energy, energy_needed) * FlDen
    ELSE Min(BaseTarget(total_energy, energy_needed) * FlDen, CapLimit)

\* mutant: med counts as critical too
PriCritical_Med(t) == t.priority # "low"

\* mutant: no task is critical, so an over-capacity high task is skipped too
PriCritical_Never(t) == FALSE

\* line 46: task["priority"] == "high"
PriCritical(t) == t.priority = "high"

\* line 91: battery += idle_time * charge_rate * charge_efficiency, where
\* idle_time = ((target - battery) / charge_efficiency) / charge_rate. In
\* floating point the division and the multiplication back do not cancel:
\* the sum is the target or one unit in the last place off it, either way.
\* When the amount charged is itself of the size of such a unit, the sum
\* rounds to the target.
Roundings(grid_amount) == IF grid_amount > 0 THEN {0 - 1, 0, 1} ELSE {0}

\* line 92: battery = min(battery, battery_capacity), on the units in the
\* last place of a charge whose grid value is b
CappedErr(b, err) ==
    IF b >= battery_capacity * FlDen /\ err > 0 THEN 0 ELSE err

\* lines 35-38; in mode "all" it runs after the segmented planner has returned
PriStart ==
    /\ p_pc = "call"
    /\ mode = "all" => s_pc = "done"
    /\ p_time' = 0
    /\ p_battery' = initial_battery * FlDen
    /\ p_i' = 1
    /\ p_pc' = "loop"
    /\ UNCHANGED <<p_result, p_err, p_terr, p_iters, p_log, inputs, gvars, svars, vvars>>

\* lines 45-47: a high-priority task that exceeds the capacity
PriFail ==
    /\ p_pc = "loop" /\ p_i <= n_tasks
    /\ PriExceeds(Energy(tasks[p_i]))
    /\ PriCritical(tasks[p_i])
    /\ p_result' = Infeasible2 /\ p_pc' = "done"
    /\ p_iters' = p_iters + 1
    /\ p_log' = Append(p_log, PriEvent("fail", p_i, p_i, 0, p_battery, p_err, p_time, p_terr))
    /\ UNCHANGED <<p_i, p_battery, p_time, p_err, p_terr, inputs, gvars, svars, vvars>>

\* mutant: a skipped task still costs its duration
PriSkip_Costly ==
    /\ p_pc = "loop" /\ p_i <= n_tasks
    /\ PriExceeds(Energy(tasks[p_i]))
    /\ ~PriCritical(tasks[p_i])
    /\ p_i' = p_i + 1
    /\ p_time' = p_time + tasks[p_i].duration * PTimeDen
    /\ p_iters' = p_iters + 1
    /\ p_log' = Append(p_log, PriEvent("skip", p_i, p_i, 0, p_battery, p_err, p_time', p_terr))
    /\ UNCHANGED <<p_pc, p_battery, p_result, p_err, p_terr, inputs, gvars, svars, vvars>>

\* lines 45-50: any other task that exceeds the capacity is skipped
PriSkip ==
    /\ p_pc = "loop" /\ p_i <= n_tasks
    /\ PriExceeds(Energy(tasks[p_i]))
    /\ ~PriCritical(tasks[p_i])
    /\ p_i' = p_i + 1
    /\ p_iters' = p_iters + 1
    /\ p_log' = Append(p_log, PriEvent("skip", p_i, p_i, 0, p_battery, p_err, p_time, p_terr))
    /\ UNCHANGED <<p_pc, p_battery, p_time, p_result, p_err, p_terr, inputs, gvars, svars, vvars>>

\* lines 53-56
PriRun ==
    /\ p_pc = "loop" /\ p_i <= n_tasks
    /\ ~PriExceeds(Energy(tasks[p_i]))
    /\ PriCanRun(p_battery, p_err, Energy(tasks[p_i]))
    /\ p_battery' = p_battery - Energy(tasks[p_i]) * FlDen
    /\ p_time' = p_time + tasks[p_i].duration * PTimeDen
    /\ p_i' = p_i + 1
    /\ p_iters' = p_iters + 1
    /\ p_log' = Append(p_log, PriEvent("run", p_i, p_i, 0, p_battery', p_err, p_time', p_terr))
    /\ UNCHANGED <<p_pc, p_result, p_err, p_terr, inputs, gvars, svars, vvars>>

\* lines 57-92: look ahead, compute the target, then either continue without
\* charging (line 84-86), or divide by charge_rate (line 89, which raises
\* ZeroDivisionError at charge_rate = 0), or charge.
PriCharge ==
    /\ p_pc = "loop" /\ p_i <= n_tasks
    /\ ~PriExceeds(Energy(tasks[p_i]))
    /\ ~PriCanRun(p_battery, p_err, Energy(tasks[p_i]))
    /\ LET scan == PriScan(p_i, 0, p_battery, p_err)
           target == PriTarget(scan.energy, Energy(tasks[p_i]))
       IN  IF AtLeast(p_battery, p_err, target)
           THEN /\ p_log' = Append(p_log, PriEvent("nocharge", p_i, scan.j, scan.energy,
                                                   p_battery, p_err, p_time, p_terr))
                /\ UNCHANGED <<p_pc, p_battery, p_time, p_err, p_terr>>
           ELSE IF charge_rate = 0
           THEN /\ p_pc' = "raised"
                /\ p_log' = Append(p_log, PriEvent("raise", p_i, scan.j, scan.energy,
                                                   p_battery, p_err, p_time, p_terr))
                /\ UNCHANGED <<p_battery, p_time, p_err, p_terr>>
           ELSE /\ p_time' = p_time + (target - p_battery) * charge_efficiency[2]
                /\ p_terr' = p_terr - p_err * charge_efficiency[2]
                /\ p_battery' = Min(p_battery + (target - p_battery),
                                    battery_capacity * FlDen)
                /\ \E rounding \in Roundings(target - p_battery) :
                      p_err' = CappedErr(target, rounding)
                /\ p_log' = Append(p_log, PriEvent("charge", p_i, scan.j, scan.energy,
                                                   p_battery', p_err', p_time', p_terr'))
                /\ UNCHANGED p_pc
    /\ p_iters' = p_iters + 1
    /\ UNCHANGED <<p_i, p_result, inputs, gvars, svars, vvars>>

\* line 94: return round(time, 2)
PriReturn ==
    /\ p_pc = "loop" /\ p_i > n_tasks
    /\ p_result' = RoundNear(p_time, p_terr, PTimeDen, 100)
    /\ p_pc' = "done"
    /\ UNCHANGED <<p_i, p_battery, p_time, p_err, p_terr, p_iters, p_log, inputs, gvars, svars, vvars>>

\* ------------------------------------------ the priority scheduler as a function
\* upgraded_battery_scheduler applied to a task sequence ts other than the one
\* the run above was called with, the other arguments being the same.

\* lines 59-73 on ts
RECURSIVE PriScanOn(_, _, _, _, _)
PriScanOn(ts, j, total_energy, b, err) ==
    IF j > Len(ts)
    THEN [energy |-> total_energy, j |-> j]
    ELSE IF total_energy + Energy(ts[j]) > battery_capacity
    THEN [energy |-> total_energy, j |-> j]
    ELSE IF PriIncluded(ts[j], b, err)
    THEN PriScanOn(ts, j + 1, total_energy + Energy(ts[j]), b, err)
    ELSE PriScanOn(ts, j + 1, total_energy, b, err)

\* lines 40-94 on ts from cursor i with the given charge and time: the set of
\* what the call can do, over the roundings of its charge updates. A call
\* returns a value, raises, or never returns: budget counts the iterations it
\* may still take, and a loop that is still running when the budget is used up
\* has come back to the state it was in one iteration before.
RECURSIVE PriLoopOn(_, _, _, _, _, _, _)
PriLoopOn(ts, i, b, err, time, terr, budget) ==
    IF i > Len(ts)
    THEN {[outcome |-> "returns", value |-> RoundNear(time, terr, PTimeDen, 100)]}
    ELSE IF budget = 0
    THEN {[outcome |-> "loops", value |-> 0]}
    ELSE IF PriExceeds(Energy(ts[i]))
    THEN IF PriCritical(ts[i])
         THEN {[outcome |-> "returns", value |-> Infeasible2]}
         ELSE PriLoopOn(ts, i + 1, b, err, time, terr, budget - 1)
    ELSE IF PriCanRun(b, err, Energy(ts[i]))
    THEN PriLoopOn(ts, i + 1, b - Energy(ts[i]) * FlDen, err,
                   time + ts[i].duration * PTimeDen, terr, budget - 1)
    ELSE LET scan == PriScanOn(ts, i, 0, b, err)
             target == PriTarget(scan.energy, Energy(ts[i]))
         IN  IF AtLeast(b, err, target)
             THEN PriLoopOn(ts, i, b, err, time, terr, budget - 1)
             ELSE IF charge_rate = 0
             THEN {[outcome |-> "raises", value |-> 0]}
             ELSE UNION {
                    PriLoopOn(ts, i, Min(b + (target - b), battery_capacity * FlDen),
                              CappedErr(target, rounding),
                              time + (target - b) * charge_efficiency[2],
                              terr - err * charge_efficiency[2], budget - 1)
                    : rounding \in Roundings(target - b) }

\* lines 35-38, then the loop; 3n + 1 iterations are one more than any run
\* that ends takes (each task is charged for at most twice, the second time
\* by a unit in the last place, and run or skipped once)
PriResultsOn(ts) ==
    PriLoopOn(ts, 1, initial_battery * FlDen, 0, 0, 0, 3 * Len(ts) + 1)

\* ------------------------------------------------------- validate_inputs
\* src/utils.py. Its tasks argument is any Python value: here a record that
\* says whether it is a list and holds its items; an item says whether it is
\* a list, a tuple or something else, and holds its elements, which are numbers.

GeneralError(msg) == [msg |-> msg, task |-> 0]
TaskError(msg, number) == [msg |-> msg, task |-> number]

\* not isinstance(task, (list, tuple)) or len(task) != 2
BadShape(task) == task.kind \notin {"list", "tuple"} \/ Len(task.elems) # 2

\* mutant: the drain rate of a task is not looked at
ValidateTask_NoDrain(task, number) ==
    IF BadShape(task)
    THEN TaskError("must be [duration, drain_rate]", number)
    ELSE IF task.elems[1] < 0
    THEN TaskError("duration cannot be negative", number)
    ELSE NoError

\* lines 26-35: the body of the loop for the task numbered i + 1
ValidateTask(task, number) ==
    IF BadShape(task)
    THEN TaskError("must be [duration, drain_rate]", number)
    ELSE IF task.elems[1] < 0
    THEN TaskError("duration cannot be negative", number)
    ELSE IF task.elems[2] < 0
    THEN TaskError("drain rate cannot be negative", number)
    ELSE NoError

\* lines 25-37: the loop from the item numbered number, and the final return
RECURSIVE ValidateTasks(_, _)
ValidateTasks(items, number) ==
    IF number > Len(items)
    THEN NoError
    ELSE IF ValidateTask(items[number], number) # NoError
    THEN ValidateTask(items[number], number)
    ELSE ValidateTasks(items, number + 1)

\* lines 10-37
validate_inputs(capacity, initial, ts, rate) ==
    IF capacity <= 0 THEN GeneralError("Battery capacity must be positive")
    ELSE IF initial < 0 THEN GeneralError("Initial battery cannot be negative")
    ELSE IF initial > capacity THEN GeneralError("Initial battery cannot exceed capacity")
    ELSE IF rate < 0 THEN GeneralError("Charge rate cannot be negative")
    ELSE IF ~ts.is_list THEN GeneralError("Tasks must be a list")
    ELSE ValidateTasks(ts.items, 1)

\* one call of validate_inputs on the inputs
Validate ==
    /\ v_pc = "call"
    /\ v_result' = validate_inputs(battery_capacity, initial_battery, tasks, charge_rate)
    /\ v_pc' = "done"
    /\ UNCHANGED <<inputs, gvars, svars, pvars>>

\* The arguments validate_inputs is called with: numbers of either sign, and
\* task lists of any shape.
RawNumbers == {0 - 1, 0, 1}
RawElems == {<<0>>, <<0, 0, 0>>} \cup [1..2 -> RawNumbers]
RawTasks ==
    [kind : {"list"}, elems : RawElems]
        \cup [kind : {"tuple"}, elems : {<<0, 0>>, <<0, 0 - 1>>}]
        \cup {[kind |-> "other", elems |-> <<>>]}
RawTaskLists == UNION {[1..n -> RawTasks] : n \in 0..MaxTasks}
RawTasksArgs ==
    [is_list : {TRUE}, items : RawTaskLists]
        \cup {[is_list |-> FALSE, items |-> <<>>],
              [is_list |-> FALSE, items |-> <<[kind |-> "list", elems |-> <<1, 1>>]>>]}

InitValidate ==
    /\ mode = "validate"
    /\ battery_capacity \in (0 - 1)..MaxCapacity
    /\ initial_battery \in (0 - 1)..(MaxCapacity + 1)
    /\ charge_rate \in RawNumbers
    /\ tasks \in RawTasksArgs
    /\ charge_efficiency = <<1, 1>> /\ full_limit = <<1, 1>>
    /\ g_pc = "off" /\ s_pc = "off" /\ p_pc = "off"
    /\ g_i = 1 /\ g_battery = 0 /\ g_time = 0 /\ g_result = 0
    /\ s_i = 1 /\ s_battery = 0 /\ s_time = 0 /\ s_result = 0
    /\ p_i = 1 /\ p_battery = 0 /\ p_time = 0 /\ p_result = 0 /\ p_iters = 0
    /\ p_err = 0 /\ p_terr = 0
    /\ g_log = <<>> /\ s_log = <<>> /\ p_log = <<>>
    /\ v_pc = "call" /\ v_result = NoError

\* -------------------------------------------------------- the system
Next ==
    \/ GreedyStart \/ GreedyCharge \/ GreedyRun \/ GreedyReturn
    \/ SegStart \/ SegFail \/ SegRun \/ SegCharge \/ SegReturn
    \/ PriStart \/ PriFail \/ PriSkip \/ PriRun \/ PriCharge \/ PriReturn

Spec == Init /\ [][Next]_vars

\* validate_inputs alone, on raw arguments
NextValidate == Validate

SpecValidate == InitValidate /\ [][NextValidate]_vars

\* ------------------------------------------------------------- claims
Abs(x) == IF x >= 0 THEN x ELSE 0 - x

\* every task's energy is at most the capacity
AllFit == \A k \in 1..n_tasks : Energy(tasks[k]) <= battery_capacity

\* a feasible input: charging is possible and every task fits the battery
Feasible == charge_rate > 0 /\ AllFit

\* The least total time, as a numerator over TimeDen, of a valid schedule of
\* tasks i.. from charge b: before each task the charge is raised to any
\* level c with b <= c <= battery_capacity that covers the task, which takes
\* (c - b) / charge_rate, and the task then runs for its duration.
RECURSIVE MinTimeFrom(_, _)
MinTimeFrom(i, b) ==
    IF i > n_tasks THEN 0
    ELSE LET e == Energy(tasks[i])
             costs == {(c - b) + tasks[i].duration * TimeDen + MinTimeFrom(i + 1, c - e) :
                          c \in Max(b, e)..battery_capacity}
         IN  CHOOSE m \in costs : \A x \in costs : m <= x

\* C1: on a feasible input (charge_rate > 0, every task's energy <= capacity)
\* the greedy algorithm and the segmented planner return the same total
\* time, within 0.01 (results are counted in tenths).
C1_Equivalence ==
    (Feasible /\ g_pc = "done" /\ s_pc = "done")
        => Abs(g_result - s_result) * 10 <= 1

\* C2: on a feasible input the time each of the greedy algorithm and the
\* segmented planner returns is the least total time of any valid schedule.
C2_Minimal ==
    Feasible =>
        /\ g_pc = "done" => g_result = RoundTo(MinTimeFrom(1, initial_battery), TimeDen, 10)
        /\ s_pc = "done" => s_result = RoundTo(MinTimeFrom(1, initial_battery), TimeDen, 10)

\* The greedy half of C2, which holds.
C2_GreedyMinimal ==
    (Feasible /\ g_pc = "done")
        => g_result = RoundTo(MinTimeFrom(1, initial_battery), TimeDen, 10)

\* C3: if any task of a non-empty sequence has energy > capacity, the greedy
\* algorithm and the segmented planner both return -1.
C3_OverCapacity ==
    (\E k \in 1..n_tasks : Energy(tasks[k]) > battery_capacity) =>
        /\ g_pc = "done" => g_result = Infeasible1
        /\ s_pc = "done" => s_result = Infeasible1

\* C4: with charge_rate > 0 the priority scheduler returns -1 if and only if
\* some high-priority task's energy exceeds the capacity; a med or low task
\* over the capacity never causes -1.
C4_PriorityFeasibility ==
    (charge_rate > 0 /\ p_pc = "done") =>
        (p_result = Infeasible2
            <=> \E k \in 1..n_tasks :
                    tasks[k].priority = "high" /\ Energy(tasks[k]) > battery_capacity)

\* C4 witness: a low task over the capacity is skipped, the high task over
\* the capacity behind it makes the result -1.
C4_Witness ==
    /\ charge_rate > 0 /\ p_pc = "done" /\ p_result = Infeasible2
    /\ n_tasks = 2
    /\ tasks[1].priority = "low" /\ Energy(tasks[1]) > battery_capacity
    /\ tasks[2].priority = "high" /\ Energy(tasks[2]) > battery_capacity

\* C5: for a non-empty sequence and charge_rate <= 0 the greedy algorithm
\* and the segmented planner both return -1, also when the initial charge
\* covers every task.
C5_ZeroRate ==
    (tasks # <<>> /\ charge_rate <= 0) =>
        /\ g_pc = "done" => g_result = Infeasible1
        /\ s_pc = "done" => s_result = Infeasible1

\* C5 witness: both have returned -1 at rate 0 although the initial charge
\* covers the only task.
C5_Witness ==
    /\ charge_rate = 0 /\ n_tasks = 1
    /\ Energy(tasks[1]) > 0 /\ Energy(tasks[1]) <= initial_battery
    /\ g_pc = "done" /\ g_result = Infeasible1
    /\ s_pc = "done" /\ s_result = Infeasible1

\* C6: for an empty task sequence each of the three schedulers returns 0,
\* whatever the capacity, the initial charge and the charge rate.
C6_Empty ==
    tasks = <<>> =>
        /\ g_pc = "done" => g_result = 0
        /\ s_pc = "done" => s_result = 0
        /\ p_pc = "done" => p_result = 0
        /\ p_pc # "raised"

\* C6 witness: the three have returned on the empty sequence at rate 0.
C6_Witness ==
    /\ tasks = <<>> /\ charge_rate = 0
    /\ g_pc = "done" /\ s_pc = "done" /\ p_pc = "done"

\* C7: on a validated input, charge_rate = 0 included, no scheduler raises.
\* (The greedy algorithm and the segmented planner divide by charge_rate only
\* after their charge_rate <= 0 return; the priority scheduler divides at
\* line 89.)
C7_Total == p_pc # "raised"

\* C8: with charge_rate > 0 the priority scheduler's loop ends: it runs at
\* most three iterations per task (a charging step, a second one that makes
\* up a unit in the last place, then the run, skip or failure), so no
\* iteration repeats at a cursor without progress, and while it has not
\* returned it can take its next step.
C8_Terminates ==
    charge_rate > 0 =>
        /\ p_iters <= 3 * n_tasks
        /\ \A k \in 1..Len(p_log) : p_log[k].op # "nocharge"
        /\ p_pc = "loop" => ENABLED (PriFail \/ PriSkip \/ PriRun \/ PriCharge \/ PriReturn)

\* C8 witness: the loop has ended after charging once before each of two tasks.
C8_Witness ==
    /\ charge_rate > 0 /\ p_pc = "done" /\ n_tasks = 2 /\ p_iters = 4

\* C9: in the greedy algorithm and in the segmented planner the simulated
\* charge stays within 0..capacity after every charging step and task run.
C9_ChargeBound ==
    /\ g_pc \in {"loop", "run"} => (0 <= g_battery /\ g_battery <= battery_capacity)
    /\ s_pc = "loop" => (0 <= s_battery /\ s_battery <= battery_capacity)

\* The greedy half of C9, which holds.
C9_GreedyChargeBound ==
    g_pc \in {"loop", "run"} => (0 <= g_battery /\ g_battery <= battery_capacity)

\* C10: with charge_rate > 0 the priority scheduler's simulated charge stays
\* within 0..capacity after every skip, charging step and task run.
C10_ChargeBound ==
    (charge_rate > 0 /\ p_pc \in {"loop", "done"}) =>
        /\ AtLeast(p_battery, p_err, 0)
        /\ ~AtLeast(p_battery, p_err - 1, battery_capacity * FlDen)

\* C10 witness: a charging step under a health cap of 1/2 has left the
\* charge at the full capacity, above the cap, for a task that needs it all,
\* and the task has then emptied the battery.
C10_Witness ==
    /\ charge_rate > 0 /\ p_pc = "loop" /\ p_i = 2 /\ p_iters = 2
    /\ full_limit = <<1, 2>>
    /\ Energy(tasks[1]) = battery_capacity /\ initial_battery < battery_capacity
    /\ p_battery = 0

\* ---------------------------------------------------------------------------
\* Reading the histories
\* ---------------------------------------------------------------------------

IsRun(e) == e.op = "run"
IsCharge(e) == e.op = "charge"

\* The charge a step of a history started from; b0 is the charge at the call.
BatteryBefore(log, k, b0) == IF k = 1 THEN b0 ELSE log[k - 1].battery

\* The time a step of a history started at.
TimeBefore(log, k) == IF k = 1 THEN 0 ELSE log[k - 1].time

\* The task indices a history ran, in the order it ran them.
RanSeq(log) ==
    LET r == SelectSeq(log, IsRun) IN [k \in 1..Len(r) |-> r[k].at]

\* The task indices at which a history charged.
ChargedAt(log) == {log[k].at : k \in {x \in 1..Len(log) : IsCharge(log[x])}}

\* Sum of the durations of the tasks the first k steps of a history ran.
RECURSIVE RunTime(_, _)
RunTime(log, k) ==
    IF k = 0 THEN 0
    ELSE RunTime(log, k - 1)
         + (IF IsRun(log[k]) THEN tasks[log[k].at].duration ELSE 0)

\* Energy the charging steps among the first k steps of a history put in.
RECURSIVE ChargedEnergy(_, _, _)
ChargedEnergy(log, k, b0) ==
    IF k = 0 THEN 0
    ELSE ChargedEnergy(log, k - 1, b0)
         + (IF IsCharge(log[k]) THEN log[k].battery - BatteryBefore(log, k, b0) ELSE 0)

\* The indices 1..n in order, and those of them that satisfy Keep.
AllIndices == [k \in 1..n_tasks |-> k]
NotSkippable(k) ==
    tasks[k].priority = "high" \/ Energy(tasks[k]) <= battery_capacity

\* C11: when a scheduler returns a value other than -1, the time it rounds is
\* the sum of the durations of the tasks it ran plus the idle time of its
\* charging steps (energy put in / charge_rate, and / charge_efficiency in the
\* priority scheduler); the greedy algorithm and the segmented planner ran
\* every task, the priority scheduler every task except the non-high tasks
\* whose energy exceeds the capacity.
C11_TimeAccounting ==
    /\ (g_pc = "done" /\ g_result # Infeasible1)
        => /\ g_time = RunTime(g_log, Len(g_log)) * TimeDen
                       + ChargedEnergy(g_log, Len(g_log), initial_battery)
           /\ g_result = RoundTo(g_time, TimeDen, 10)
           /\ RanSeq(g_log) = AllIndices
    /\ (s_pc = "done" /\ s_result # Infeasible1)
        => /\ s_time = RunTime(s_log, Len(s_log)) * TimeDen
                       + ChargedEnergy(s_log, Len(s_log), initial_battery)
           /\ s_result = RoundTo(s_time, TimeDen, 10)
           /\ RanSeq(s_log) = AllIndices
    /\ (p_pc = "done" /\ p_result # Infeasible2)
        => /\ p_time = RunTime(p_log, Len(p_log)) * PTimeDen
                       + ChargedEnergy(p_log, Len(p_log), initial_battery * FlDen)
                         * charge_efficiency[2]
           /\ p_result = RoundNear(p_time, p_terr, PTimeDen, 100)
           /\ RanSeq(p_log) = SelectSeq(AllIndices, NotSkippable)

\* C11 witness: the priority scheduler has returned a time after skipping a
\* task, charging and running another.
C11_Witness ==
    /\ p_pc = "done" /\ p_result # Infeasible2
    /\ \E k \in 1..Len(p_log) : p_log[k].op = "skip"
    /\ \E k \in 1..Len(p_log) : IsCharge(p_log[k])
    /\ \E k \in 1..Len(p_log) : IsRun(p_log[k])

\* C12: on every validated input the greedy algorithm returns -1 if and only
\* if the segmented planner returns -1.
C12_SameVerdict ==
    (g_pc = "done" /\ s_pc = "done")
        => ((g_result = Infeasible1) <=> (s_result = Infeasible1))

\* Sum of the durations, and of the energies, of the first k tasks.
RECURSIVE SumDurations(_)
SumDurations(k) == IF k = 0 THEN 0 ELSE SumDurations(k - 1) + tasks[k].duration

RECURSIVE SumEnergies(_)
SumEnergies(k) == IF k = 0 THEN 0 ELSE SumEnergies(k - 1) + Energy(tasks[k])

\* sum(durations) + max(0, sum(energies) - initial_charge) / charge_rate,
\* rounded to one decimal, in tenths
ExpectedTotal ==
    RoundTo(SumDurations(n_tasks) * TimeDen
            + Max(0, SumEnergies(n_tasks) - initial_battery), TimeDen, 10)

\* C13: on a feasible input (charge_rate > 0, every task's energy <= capacity)
\* the greedy algorithm and the segmented planner each return
\* sum(durations) + max(0, sum(energies) - initial_charge) / charge_rate.
C13_ExpectedTotals ==
    Feasible =>
        /\ g_pc = "done" => g_result = ExpectedTotal
        /\ s_pc = "done" => s_result = ExpectedTotal

\* The greedy half of C13, which holds.
C13_GreedyTotal ==
    (Feasible /\ g_pc = "done") => g_result = ExpectedTotal

\* The sequence ts without its k-th element.
RemoveAt(ts, k) ==
    [x \in 1..(Len(ts) - 1) |-> IF x < k THEN ts[x] ELSE ts[x + 1]]

\* a med or low task whose energy exceeds the capacity
Skippable(t) == t.priority # "high" /\ Energy(t) > battery_capacity

\* The sequence ts with task x put in before its k-th element.
InsertAt(ts, k, x) ==
    [y \in 1..(Len(ts) + 1) |-> IF y < k THEN ts[y] ELSE IF y = k THEN x ELSE ts[y - 1]]

\* Every skip step of the history passes a med or low task whose energy
\* exceeds the capacity, with the cursor advanced by one and time and charge
\* unchanged.
C14_SkipStep ==
    charge_rate > 0 =>
        \A k \in 1..Len(p_log) :
            p_log[k].op = "skip" =>
                /\ Skippable(tasks[p_log[k].at])
                /\ p_log[k].time = TimeBefore(p_log, k)
                /\ p_log[k].battery = BatteryBefore(p_log, k, initial_battery * FlDen)
                /\ k < Len(p_log) => p_log[k + 1].at = p_log[k].at + 1

\* C14: with charge_rate > 0, the priority scheduler passes a med or low task
\* whose energy exceeds the capacity with the cursor advanced by one and time
\* and charge unchanged, and what it returns for the whole sequence is what it
\* returns for the sequence with that task removed: the same set of outcomes
\* over the roundings of its charge updates, the result among them, whether
\* the task is taken out of the sequence that was run or put into it.
\* (Violated: the task still ends the look-ahead of an earlier charging
\* step, line 63, so the idle times are split differently and their sum
\* rounds to another hundredth on a tie.)
C14_SkipIsFree ==
    charge_rate > 0 =>
        /\ C14_SkipStep
        /\ (p_pc = "done" /\ \E k \in 1..n_tasks : Skippable(tasks[k])) =>
              /\ [outcome |-> "returns", value |-> p_result] \in PriResultsOn(tasks)
              /\ \A k \in 1..n_tasks :
                    Skippable(tasks[k]) =>
                        PriResultsOn(RemoveAt(tasks, k)) = PriResultsOn(tasks)
        /\ (p_pc = "done" /\ mode = "v2") =>
              \A k \in 1..(n_tasks + 1) :
                  \A x \in {t \in TaskSet({"med", "low"}) : Skippable(t)} :
                      PriResultsOn(InsertAt(tasks, k, x)) = PriResultsOn(tasks)

\* C14 witness: the scheduler has returned a time after charging, running a
\* task and skipping the low task that followed it, with an efficiency below 1.
C14_Witness ==
    /\ charge_rate > 0 /\ p_pc = "done" /\ p_result > 0
    /\ n_tasks = 2 /\ Skippable(tasks[2]) /\ charge_efficiency = <<1, 2>>
    /\ Len(p_log) = 3
    /\ IsCharge(p_log[1]) /\ IsRun(p_log[2]) /\ p_log[3].op = "skip"

\* C15: a charging step of the priority scheduler leaves the charge at most
\* full_limit * capacity unless the immediate task's own energy exceeds
\* full_limit * capacity, and then it leaves the charge at
\* min(max(batch energy, task energy), capacity).
C15_HealthCap ==
    \A k \in 1..Len(p_log) :
        IsCharge(p_log[k]) =>
            LET energy_needed == Energy(tasks[p_log[k].at])
            IN  IF energy_needed * FlDen > CapLimit
                THEN /\ p_log[k].battery
                           = Min(Max(p_log[k].energy, energy_needed), battery_capacity) * FlDen
                     /\ p_log[k].err = 0
                ELSE ~AtLeast(p_log[k].battery, p_log[k].err - 1, CapLimit)

\* What of C15 holds: the same with the charge read to within a unit in the
\* last place.
C15_HealthCapNearly ==
    \A k \in 1..Len(p_log) :
        IsCharge(p_log[k]) =>
            LET energy_needed == Energy(tasks[p_log[k].at])
            IN  IF energy_needed * FlDen > CapLimit
                THEN p_log[k].battery
                        = Min(Max(p_log[k].energy, energy_needed), battery_capacity) * FlDen
                ELSE p_log[k].battery <= CapLimit

\* C15 witness: under a health cap of 1/2 a charging step for a task that
\* needs more than the cap, and more than the batch the look-ahead summed,
\* has raised the charge above the cap.
C15_Witness ==
    /\ full_limit = <<1, 2>>
    /\ \E k \in 1..Len(p_log) :
          /\ IsCharge(p_log[k])
          /\ Energy(tasks[p_log[k].at]) * FlDen > CapLimit
          /\ p_log[k].energy < Energy(tasks[p_log[k].at])
          /\ p_log[k].battery > CapLimit

\* a task that is a 2-element list or tuple with duration >= 0 and drain_rate >= 0
WellFormed(task) ==
    /\ task.kind \in {"list", "tuple"}
    /\ Len(task.elems) = 2
    /\ task.elems[1] >= 0 /\ task.elems[2] >= 0

ValidArguments ==
    /\ battery_capacity > 0
    /\ 0 <= initial_battery /\ initial_battery <= battery_capacity
    /\ charge_rate >= 0
    /\ tasks.is_list
    /\ \A k \in 1..Len(tasks.items) : WellFormed(tasks.items[k])

\* The rules in the order they are to be checked, each with whether the
\* arguments violate it and the error it is reported with; the rules about
\* the tasks apply only to a list.
TaskRules(k) ==
    LET t == tasks.items[k]
        shaped == t.kind \in {"list", "tuple"} /\ Len(t.elems) = 2
    IN  << [bad |-> ~shaped,
            err |-> [msg |-> "must be [duration, drain_rate]", task |-> k]],
           [bad |-> shaped /\ t.elems[1] < 0,
            err |-> [msg |-> "duration cannot be negative", task |-> k]],
           [bad |-> shaped /\ t.elems[1] >= 0 /\ t.elems[2] < 0,
            err |-> [msg |-> "drain rate cannot be negative", task |-> k]] >>

RECURSIVE TaskRulesFrom(_)
TaskRulesFrom(k) ==
    IF k > Len(tasks.items) THEN <<>> ELSE TaskRules(k) \o TaskRulesFrom(k + 1)

Rules ==
    << [bad |-> battery_capacity <= 0,
        err |-> [msg |-> "Battery capacity must be positive", task |-> 0]],
       [bad |-> initial_battery < 0,
        err |-> [msg |-> "Initial battery cannot be negative", task |-> 0]],
       [bad |-> initial_battery > battery_capacity,
        err |-> [msg |-> "Initial battery cannot exceed capacity", task |-> 0]],
       [bad |-> charge_rate < 0,
        err |-> [msg |-> "Charge rate cannot be negative", task |-> 0]],
       [bad |-> ~tasks.is_list,
        err |-> [msg |-> "Tasks must be a list", task |-> 0]] >>
    \o (IF tasks.is_list THEN TaskRulesFrom(1) ELSE <<>>)

Violated == {k \in 1..Len(Rules) : Rules[k].bad}

FirstViolated == CHOOSE k \in Violated : \A x \in Violated : k <= x

\* C16: validate_inputs returns None exactly when capacity > 0,
\* 0 <= initial_battery <= capacity, charge_rate >= 0, tasks is a list and
\* every task is a 2-element list or tuple with duration >= 0 and
\* drain_rate >= 0; otherwise it returns the error of the first violated
\* rule, in the order capacity, initial below 0, initial above capacity,
\* charge rate, tasks type, then each task in sequence order.
C16_Validation ==
    v_pc = "done" =>
        /\ (v_result = NoError) <=> ValidArguments
        /\ ValidArguments <=> (Violated = {})
        /\ Violated # {} => v_result = Rules[FirstViolated].err

\* C16 witness: the first task is a well-formed tuple, the second has a
\* negative drain rate, and the call has returned the error about task 2.
C16_Witness ==
    /\ v_pc = "done"
    /\ v_result = [msg |-> "drain rate cannot be negative", task |-> 2]
    /\ Len(tasks.items) = 2 /\ tasks.items[1].kind = "tuple"

\* C17: in the simulation phase of the greedy algorithm, before each task the
\* scheduler charges if and only if charge < min(energy, capacity), and then
\* to exactly that level; after a task that was preceded by charging the
\* charge is exactly 0, and a task never starts with less charge than its
\* energy.
C17_GreedyStep ==
    /\ \A k \in 1..Len(g_log) :
          LET t == tasks[g_log[k].at]
              before == BatteryBefore(g_log, k, initial_battery)
              level == Min(Energy(t), battery_capacity)
          IN  /\ IsCharge(g_log[k]) =>
                    /\ before < level
                    /\ g_log[k].battery = level
                    /\ k > 1 => (IsRun(g_log[k - 1]) /\ g_log[k - 1].at = g_log[k].at - 1)
              /\ IsRun(g_log[k]) =>
                    /\ before >= Energy(t)
                    /\ g_log[k].battery = before - Energy(t)
                    /\ IF k > 1 /\ IsCharge(g_log[k - 1])
                       THEN g_log[k - 1].at = g_log[k].at /\ g_log[k].battery = 0
                       ELSE before >= level
    /\ g_pc = "run" => g_battery >= Energy(tasks[g_i])
    /\ (Len(g_log) > 0 /\ IsCharge(g_log[Len(g_log)]))
          => (g_pc = "run" /\ g_i = g_log[Len(g_log)].at)

\* C17 witness: the first task ran on the initial charge without charging and
\* left some, the greedy algorithm then charged for the second task, ran it
\* and is at charge 0.
C17_Witness ==
    /\ Len(g_log) = 3
    /\ IsRun(g_log[1]) /\ g_log[1].battery > 0
    /\ IsCharge(g_log[2]) /\ IsRun(g_log[3])
    /\ g_battery = 0

\* Cumulative energy of tasks a..b.
RECURSIVE EnergyOf(_, _)
EnergyOf(a, b) == IF a > b THEN 0 ELSE Energy(tasks[a]) + EnergyOf(a + 1, b)

\* The steps that follow step k of the segmented history run the tasks
\* at..j-1 of its batch one after the other, as far as the history goes.
BatchRuns(k) ==
    \A m \in 1..(s_log[k].j - s_log[k].at) :
        k + m <= Len(s_log) =>
            (IsRun(s_log[k + m]) /\ s_log[k + m].at = s_log[k].at + m - 1)

\* No task is in the batches of two charging steps.
BatchesDisjoint ==
    \A k1, k2 \in 1..Len(s_log) :
        (k1 < k2 /\ IsCharge(s_log[k1]) /\ IsCharge(s_log[k2]))
            => s_log[k1].j <= s_log[k2].at

\* C18: when the segmented planner charges at task i, its batch is the maximal
\* run of consecutive tasks i..j-1 whose cumulative energy does not exceed the
\* capacity; it charges to exactly the batch's cumulative energy, every task
\* of the batch then runs with no charging step in between, and each task
\* belongs to at most one batch.
C18_Batch ==
    /\ \A k \in 1..Len(s_log) :
          IsCharge(s_log[k]) =>
              /\ s_log[k].j > s_log[k].at
              /\ s_log[k].energy = EnergyOf(s_log[k].at, s_log[k].j - 1)
              /\ s_log[k].energy <= battery_capacity
              /\ s_log[k].j <= n_tasks
                    => s_log[k].energy + Energy(tasks[s_log[k].j]) > battery_capacity
              /\ s_log[k].battery = s_log[k].energy
              /\ BatchRuns(k)
    /\ BatchesDisjoint

\* What of C18 holds: the batch is maximal for capacity + epsilon, the charge
\* goes to min(cumulative energy, capacity), the batch runs without another
\* charging step and the batches are disjoint.
C18_BatchWithinTolerance ==
    /\ \A k \in 1..Len(s_log) :
          IsCharge(s_log[k]) =>
              /\ s_log[k].j > s_log[k].at
              /\ s_log[k].energy = EnergyOf(s_log[k].at, s_log[k].j - 1)
              /\ s_log[k].energy <= battery_capacity + Epsilon
              /\ s_log[k].j <= n_tasks
                    => s_log[k].energy + Energy(tasks[s_log[k].j])
                           > battery_capacity + Epsilon
              /\ s_log[k].battery = Min(s_log[k].energy, battery_capacity)
              /\ BatchRuns(k)
    /\ BatchesDisjoint

C20_FewerCycles ==
    (Feasible /\ g_pc = "done" /\ s_pc = "done") =>
        /\ ChargedAt(s_log) \subseteq ChargedAt(g_log)
        /\ Cardinality(ChargedAt(s_log)) <= Cardinality(ChargedAt(g_log))
        /\ ChargedEnergy(s_log, Len(s_log), initial_battery)
               = ChargedEnergy(g_log, Len(g_log), initial_battery)

\* The half of C20 about the indices alone.
C20_ChargeIndices ==
    (Feasible /\ g_pc = "done" /\ s_pc = "done") =>
        ChargedAt(s_log) \subseteq ChargedAt(g_log)

\* Every step of a history with time numerators over den keeps or advances
\* the time: a charging step advances it, a run advances it by the task's
\* duration, any other step leaves it.
TimeAdvances(log, den) ==
    \A k \in 1..Len(log) :
        /\ log[k].time >= TimeBefore(log, k)
        /\ IsCharge(log[k]) => log[k].time > TimeBefore(log, k)
        /\ IsRun(log[k]) =>
              /\ tasks[log[k].at].duration >= 0
              /\ log[k].time = TimeBefore(log, k) + tasks[log[k].at].duration * den
        /\ (~IsCharge(log[k]) /\ ~IsRun(log[k])) => log[k].time = TimeBefore(log, k)

\* The same of the priority scheduler's history, whose times carry units in
\* the last place: a charging step advances the time by a grid amount or,
\* when it makes up a shortfall in the last place, by such units.
PriTimeAdvances ==
    \A k \in 1..Len(p_log) :
        LET terr_before == IF k = 1 THEN 0 ELSE p_log[k - 1].terr
        IN  /\ IsCharge(p_log[k]) =>
                  \/ p_log[k].time > TimeBefore(p_log, k)
                  \/ /\ p_log[k].time = TimeBefore(p_log, k)
                     /\ p_log[k].terr > terr_before
            /\ IsRun(p_log[k]) =>
                  /\ p_log[k].time
                        = TimeBefore(p_log, k) + tasks[p_log[k].at].duration * PTimeDen
                  /\ p_log[k].terr = terr_before
            /\ (~IsCharge(p_log[k]) /\ ~IsRun(p_log[k])) =>
                  /\ p_log[k].time = TimeBefore(p_log, k)
                  /\ p_log[k].terr = terr_before

\* C21: with charge_rate > 0, in each of the three schedulers every charging
\* step adds a positive idle time and every task run adds its non-negative
\* duration, the accumulated time never decreases from one step to the next,
\* and a result other than -1 is >= 0.
C21_TimeMonotonic ==
    charge_rate > 0 =>
        /\ TimeAdvances(g_log, TimeDen) /\ g_time >= 0
        /\ TimeAdvances(s_log, TimeDen) /\ s_time >= 0
        /\ PriTimeAdvances /\ p_time >= 0
        /\ Len(g_log) > 0 => g_time = g_log[Len(g_log)].time
        /\ Len(s_log) > 0 => s_time = s_log[Len(s_log)].time
        /\ Len(p_log) > 0 => (p_time = p_log[Len(p_log)].time
                               /\ p_terr = p_log[Len(p_log)].terr)
        /\ (g_pc = "done" /\ g_result # Infeasible1) => g_result >= 0
        /\ (s_pc = "done" /\ s_result # Infeasible1) => s_result >= 0
        /\ (p_pc = "done" /\ p_result # Infeasible2) => p_result >= 0

\* C21 witness: the three schedulers have each charged, run a task and
\* returned a positive time.
C21_Witness ==
    /\ charge_rate > 0
    /\ g_pc = "done" /\ s_pc = "done" /\ p_pc = "done"
    /\ g_result > 0 /\ s_result > 0 /\ p_result > 0
    /\ \E k \in 1..Len(g_log) : IsCharge(g_log[k])
    /\ \E k \in 1..Len(s_log) : IsCharge(s_log[k])
    /\ \E k \in 1..Len(p_log) : IsCharge(p_log[k])

\* Where the cursor stands after a step: one further after a run or a skip,
\* on the same task after any other step.
CursorAfter(e) == IF e.op \in {"run", "skip"} THEN e.at + 1 ELSE e.at

\* A history moves its cursor i from 1 only forward and only by a run or a
\* skip, one task at a time; a run takes the whole energy and the whole
\* duration of its task in one step (den is the time denominator, unit the
\* charge denominator), so no charging lies between its start and its end.
InOrder(log, i, b0, den, unit) ==
    /\ i = (IF Len(log) = 0 THEN 1 ELSE CursorAfter(log[Len(log)]))
    /\ \A k \in 1..Len(log) :
          /\ log[k].at = (IF k = 1 THEN 1 ELSE CursorAfter(log[k - 1]))
          /\ log[k].at \in 1..n_tasks
          /\ IsRun(log[k]) =>
                /\ log[k].battery
                      = BatteryBefore(log, k, b0) - Energy(tasks[log[k].at]) * unit
                /\ log[k].time = TimeBefore(log, k) + tasks[log[k].at].duration * den
    /\ \A k1, k2 \in 1..Len(log) :
          (k1 < k2 /\ IsRun(log[k1]) /\ IsRun(log[k2])) => log[k1].at < log[k2].at

\* C22: in every scheduler the task cursor only increases, by exactly one per
\* task run (or per skip in the priority scheduler); each task is run at most
\* once, tasks run in the given order, and no charging occurs between the
\* start and the end of a task.
C22_InOrder ==
    /\ InOrder(g_log, g_i, initial_battery, TimeDen, 1)
    /\ InOrder(s_log, s_i, initial_battery, TimeDen, 1)
    /\ InOrder(p_log, p_i, initial_battery * FlDen, PTimeDen, FlDen)
    /\ \A k \in 1..Len(g_log) : g_log[k].op # "skip"
    /\ \A k \in 1..Len(s_log) : s_log[k].op # "skip"

\* C22 witness: the priority scheduler has skipped the first task, charged
\* for the second and run it, and its cursor is past both.
C22_Witness ==
    /\ Len(p_log) = 3 /\ p_i = 3
    /\ p_log[1].op = "skip" /\ IsCharge(p_log[2]) /\ IsRun(p_log[3])

\* C23: every charging step of the priority scheduler ends with the charge at
\* least the immediate task's energy, and the iteration that follows a
\* charging step runs that task.  (Violated: the charge update of line 91 can
\* land a unit in the last place below a target equal to the task's energy,
\* and the next iteration then charges again.)
C23_ChargeCovers ==
    charge_rate > 0 =>
        \A k \in 1..Len(p_log) :
            IsCharge(p_log[k]) =>
                /\ AtLeast(p_log[k].battery, p_log[k].err,
                           Energy(tasks[p_log[k].at]) * FlDen)
                /\ k < Len(p_log) =>
                      (IsRun(p_log[k + 1]) /\ p_log[k + 1].at = p_log[k].at)

\* What holds of C23: on the grid the charge after a charging step covers the
\* immediate task, and that task is run after at most one further charging
\* step, which makes up the last place.
C23_ChargeCoversNearly ==
    charge_rate > 0 =>
        \A k \in 1..Len(p_log) :
            IsCharge(p_log[k]) =>
                /\ p_log[k].battery >= Energy(tasks[p_log[k].at]) * FlDen
                /\ k < Len(p_log) =>
                      /\ p_log[k + 1].at = p_log[k].at
                      /\ IsRun(p_log[k + 1]) \/ IsCharge(p_log[k + 1])
                      /\ (IsCharge(p_log[k + 1]) /\ k + 1 < Len(p_log)) =>
                            IsRun(p_log[k + 2])

\* The target of the charging step a history records at k.
TargetAt(k) == PriTarget(p_log[k].energy, Energy(tasks[p_log[k].at]))

\* C24: each charging step of the priority scheduler raises the charge by
\* exactly target - charge, ending at the target and never above the
\* capacity, and adds the idle time (target - charge) / (charge_efficiency x
\* charge_rate); with charge_efficiency = 1 that is the time of a lossless
\* charge, and a lower efficiency never shortens it.  (Violated: the charge
\* update of line 91 ends a unit in the last place beside the target.)
C24_ChargeEfficiency ==
    charge_rate > 0 =>
        \A k \in 1..Len(p_log) :
            IsCharge(p_log[k]) =>
                LET before == BatteryBefore(p_log, k, initial_battery * FlDen)
                    err_before == IF k = 1 THEN 0 ELSE p_log[k - 1].err
                    terr_before == IF k = 1 THEN 0 ELSE p_log[k - 1].terr
                    lossless == (TargetAt(k) - before) * charge_efficiency[1]
                    idle == p_log[k].time - TimeBefore(p_log, k)
                IN  /\ p_log[k].battery = TargetAt(k) /\ p_log[k].err = 0
                    /\ p_log[k].battery <= battery_capacity * FlDen
                    /\ idle = (TargetAt(k) - before) * charge_efficiency[2]
                    /\ p_log[k].terr - terr_before = 0 - err_before * charge_efficiency[2]
                    /\ charge_efficiency[1] = charge_efficiency[2] => idle = lossless
                    /\ idle >= lossless

\* What holds of C24: the same with the charge after the step within a unit
\* in the last place of the target.
C24_ChargeEfficiencyNearly ==
    charge_rate > 0 =>
        \A k \in 1..Len(p_log) :
            IsCharge(p_log[k]) =>
                LET before == BatteryBefore(p_log, k, initial_battery * FlDen)
                    err_before == IF k = 1 THEN 0 ELSE p_log[k - 1].err
                    terr_before == IF k = 1 THEN 0 ELSE p_log[k - 1].terr
                    lossless == (TargetAt(k) - before) * charge_efficiency[1]
                    idle == p_log[k].time - TimeBefore(p_log, k)
                IN  /\ p_log[k].battery = TargetAt(k)
                    /\ p_log[k].err \in {0 - 1, 0, 1}
                    /\ ~AtLeast(p_log[k].battery, p_log[k].err - 1,
                                battery_capacity * FlDen)
                    /\ idle = (TargetAt(k) - before) * charge_efficiency[2]
                    /\ p_log[k].terr - terr_before = 0 - err_before * charge_efficiency[2]
                    /\ charge_efficiency[1] = charge_efficiency[2] => idle = lossless
                    /\ idle >= lossless

\* Whether a step of the priority scheduler's history looked ahead.
Scanned(e) == e.op \in {"charge", "nocharge", "raise"}

\* Sum of the energies of the tasks lo..hi that are high, or med when
\* med_counts.
RECURSIVE BatchSum(_, _, _)
BatchSum(lo, hi, med_counts) ==
    IF lo > hi THEN 0
    ELSE BatchSum(lo, hi - 1, med_counts)
         + (IF \/ tasks[hi].priority = "high"
               \/ tasks[hi].priority = "med" /\ med_counts
            THEN Energy(tasks[hi]) ELSE 0)

\* C25: the batch energy of a look-ahead of the priority scheduler is the sum,
\* over the tasks it scanned, of the energies of the high tasks and, when the
\* charge is below full_limit x capacity, of the med tasks; a low task adds
\* nothing, the batch energy never exceeds the capacity, and the scan stopped
\* at the end of the sequence or at the first task that would take the batch
\* energy above the capacity.
C25_BatchInclusion ==
    \A k \in 1..Len(p_log) :
        Scanned(p_log[k]) =>
            LET e == p_log[k]
                before == BatteryBefore(p_log, k, initial_battery * FlDen)
                err_before == IF k = 1 THEN 0 ELSE p_log[k - 1].err
                med_counts == Below(before, err_before, CapLimit)
            IN  /\ e.j \in e.at..(n_tasks + 1)
                /\ e.energy = BatchSum(e.at, e.j - 1, med_counts)
                /\ e.energy <= battery_capacity
                /\ e.j <= n_tasks => e.energy + Energy(tasks[e.j]) > battery_capacity
                /\ \A x \in e.at..(e.j - 1) :
                      BatchSum(e.at, x - 1, med_counts) + Energy(tasks[x])
                          <= battery_capacity

\* C25 witness: a charging step whose look-ahead scanned two tasks with the
\* charge below the cap, counted the med one and left out the low one.
C25_Witness ==
    /\ Len(p_log) >= 1 /\ IsCharge(p_log[1])
    /\ p_log[1].at = 1 /\ p_log[1].j = 3
    /\ tasks[1].priority = "med" /\ Energy(tasks[1]) > 0
    /\ tasks[2].priority = "low" /\ Energy(tasks[2]) > 0
    /\ p_log[1].energy = Energy(tasks[1])

\* a charging step at or above the cap whose look-ahead left out a med task
C25_WitnessDeferred ==
    \E k \in 1..Len(p_log) :
        /\ IsCharge(p_log[k])
        /\ AtLeast(BatteryBefore(p_log, k, initial_battery * FlDen),
                   IF k = 1 THEN 0 ELSE p_log[k - 1].err, CapLimit)
        /\ \E x \in p_log[k].at..(p_log[k].j - 1) :
              tasks[x].priority = "med" /\ Energy(tasks[x]) > 0

\* The priority scheduler is in its charge-planning branch: the task at the
\* cursor fits the capacity and the charge does not cover it.
InChargeBranch ==
    /\ p_pc = "loop" /\ p_i <= n_tasks
    /\ Energy(tasks[p_i]) <= battery_capacity
    /\ Below(p_battery, p_err, Energy(tasks[p_i]) * FlDen)

\* The target the charge-planning branch computes from where it stands.
TargetHere ==
    PriTarget(PriScan(p_i, 0, p_battery, p_err).energy, Energy(tasks[p_i]))

\* C26: whenever the priority scheduler is in its charge-planning branch the
\* target it computes is strictly greater than the charge, at every
\* charge_rate >= 0, so the continue of line 86 is never taken.
C26_NoContinue ==
    /\ InChargeBranch => Below(p_battery, p_err, TargetHere)
    /\ \A k \in 1..Len(p_log) : p_log[k].op # "nocharge"
    /\ \A k \in 1..Len(p_log) :
          IsCharge(p_log[k]) =>
              Below(BatteryBefore(p_log, k, initial_battery * FlDen),
                    IF k = 1 THEN 0 ELSE p_log[k - 1].err, TargetAt(k))

\* C26 witness: the branch is entered with the charge at the health cap and a
\* task that needs more than the cap, so the target overrides the cap.
C26_Witness ==
    /\ InChargeBranch
    /\ AtLeast(p_battery, p_err, CapLimit)
    /\ TargetHere > CapLimit
    /\ Len(p_log) > 0

\* sum(durations) + max(0, sum(energies) - initial_charge) / (charge_efficiency
\* x charge_rate), rounded to two decimals, in hundredths.  It reads the
\* battery, the rate, the efficiency and the (duration, drain_rate) pairs, and
\* neither the priorities nor full_limit.
ExpectedPriTotal ==
    RoundTo(SumDurations(n_tasks) * charge_efficiency[1] * TimeDen
            + Max(0, SumEnergies(n_tasks) - initial_battery) * charge_efficiency[2],
            charge_efficiency[1] * TimeDen, 100)

\* C27: with charge_rate > 0 and no task's energy above the capacity, the
\* priority scheduler returns sum(durations) + max(0, sum(energies) -
\* initial_charge) / (charge_efficiency x charge_rate), whatever the
\* priorities of the tasks and whatever full_limit: the value is a function
\* of the other inputs alone, so two calls that differ only in priorities or
\* in full_limit return the same time.  (Violated: the time the code has
\* accumulated differs from the closed form by units in the last place, and
\* round(time, 2) turns them into a hundredth when the closed form lies
\* halfway between two hundredths.)
C27_PriorityBlind ==
    (Feasible /\ p_pc = "done") => p_result = ExpectedPriTotal

\* What holds of C27: the time accumulated is the closed form on the grid,
\* and the time returned is the closed form unless the closed form is a tie
\* of the rounding, where it is within one hundredth of it.
C27_PriorityBlindNearly ==
    (Feasible /\ p_pc = "done") =>
        /\ p_time * charge_efficiency[1] * TimeDen
              = (SumDurations(n_tasks) * charge_efficiency[1] * TimeDen
                 + Max(0, SumEnergies(n_tasks) - initial_battery) * charge_efficiency[2])
                * PTimeDen
        /\ p_terr = 0 => p_result = ExpectedPriTotal
        /\ Abs(p_result - ExpectedPriTotal) <= 1
        /\ p_result # ExpectedPriTotal => (2 * p_time * 100) % PTimeDen = 0

\* The charging steps and task runs of a history, each as its kind, its task
\* index and the charge it ended with (the target, for a charging step).
StepsOf(log) ==
    LET steps == SelectSeq(log, LAMBDA e : IsCharge(e) \/ IsRun(e))
    IN  [k \in 1..Len(steps) |-> <<steps[k].op, steps[k].at, steps[k].battery>>]

\* C28: with charge_efficiency = 1, full_limit = 1, charge_rate > 0 and every
\* task high with energy <= capacity, the priority scheduler performs the
\* charging steps (same task index, same target) and task runs of the
\* segmented planner and returns the same total time.  (Violated: the
\* planner returns round(total_time, 1) and the scheduler round(time, 2); the
\* planner runs a task within epsilon of the charge where the scheduler
\* charges first, and the scheduler repeats a charging step that landed a
\* unit in the last place below its target.)
C28_Refines ==
    (mode = "all" /\ Feasible /\ s_pc = "done" /\ p_pc = "done") =>
        /\ StepsOf(p_log) = StepsOf(s_log)
        /\ p_result = 10 * s_result

\* The steps alone, and the result alone.
C28_SameSteps ==
    (mode = "all" /\ Feasible /\ s_pc = "done" /\ p_pc = "done") =>
        StepsOf(p_log) = StepsOf(s_log)

C28_SameResult ==
    (mode = "all" /\ Feasible /\ s_pc = "done" /\ p_pc = "done") =>
        p_result = 10 * s_result

\* What holds of C28: when no charge of the planner's history is below 0 (it
\* ran no task on the tolerance) and no charge update of the scheduler was
\* rounded, the steps are the same and so is the time before it is rounded.
C28_RefinesOffTolerance ==
    (/\ mode = "all" /\ Feasible /\ s_pc = "done" /\ p_pc = "done"
     /\ \A k \in 1..Len(s_log) : s_log[k].battery >= 0
     /\ \A k \in 1..Len(p_log) : p_log[k].err = 0) =>
        /\ StepsOf(p_log) = StepsOf(s_log)
        /\ p_time = s_time
        /\ RoundTo(p_time, PTimeDen, 10) = s_result

\* The units in the last place of the charge a step of the priority
\* scheduler's history started from.
ErrBefore(k) == IF k = 1 THEN 0 ELSE p_log[k - 1].err

\* The segmented planner compares with the tolerance: it runs a task exactly
\* when charge >= energy - epsilon, charging otherwise, and returns -1 at a
\* task only when energy > capacity + epsilon.
SegGuarded ==
    \A k \in 1..Len(s_log) :
        LET e == Energy(tasks[s_log[k].at])
            b == BatteryBefore(s_log, k, initial_battery)
        IN  /\ IsRun(s_log[k]) => (b >= e - Epsilon /\ e <= battery_capacity + Epsilon)
            /\ IsCharge(s_log[k]) => (b < e - Epsilon /\ e <= battery_capacity + Epsilon)
            /\ s_log[k].op = "fail" =>
                  \E x \in s_log[k].at..n_tasks : Energy(tasks[x]) > battery_capacity + Epsilon

\* The priority scheduler with the same tolerance.
PriGuarded ==
    \A k \in 1..Len(p_log) :
        LET e == Energy(tasks[p_log[k].at])
            b == BatteryBefore(p_log, k, initial_battery * FlDen)
        IN  /\ IsRun(p_log[k]) =>
                  /\ AtLeast(b, ErrBefore(k), (e - Epsilon) * FlDen)
                  /\ e <= battery_capacity + Epsilon
            /\ IsCharge(p_log[k]) =>
                  /\ Below(b, ErrBefore(k), (e - Epsilon) * FlDen)
                  /\ e <= battery_capacity + Epsilon
            /\ p_log[k].op \in {"fail", "skip"} => e > battery_capacity + Epsilon

\* The priority scheduler as it compares: exactly.
PriExact ==
    \A k \in 1..Len(p_log) :
        LET e == Energy(tasks[p_log[k].at])
            b == BatteryBefore(p_log, k, initial_battery * FlDen)
        IN  /\ IsRun(p_log[k]) =>
                  (AtLeast(b, ErrBefore(k), e * FlDen) /\ e <= battery_capacity)
            /\ IsCharge(p_log[k]) =>
                  (Below(b, ErrBefore(k), e * FlDen) /\ e <= battery_capacity)
            /\ p_log[k].op \in {"fail", "skip"} => e > battery_capacity

\* The greedy algorithm compares exactly: it runs no task on less than the
\* task's energy, charges whenever the charge is below it, and returns -1
\* when some task's energy is above the capacity by any amount.
GreedyExact ==
    /\ \A k \in 1..Len(g_log) :
          LET e == Energy(tasks[g_log[k].at])
              b == BatteryBefore(g_log, k, initial_battery)
          IN  /\ IsRun(g_log[k]) => (b >= e /\ e <= battery_capacity)
              /\ IsCharge(g_log[k]) => b < e
    /\ (g_pc = "done" /\ \E x \in 1..n_tasks : Energy(tasks[x]) > battery_capacity) =>
          g_result = Infeasible1

\* C29: the segmented planner and the priority scheduler both compare with
\* the tolerance epsilon (a task runs without charging when charge >= energy
\* - epsilon, and exceeds the capacity only when energy > capacity +
\* epsilon), and the greedy algorithm compares exactly.  (Violated: the
\* priority scheduler compares exactly, lines 45 and 53.)
C29_EpsilonGuard ==
    charge_rate > 0 => (SegGuarded /\ PriGuarded /\ GreedyExact)

\* What holds of C29: the segmented planner alone has the tolerance.
C29_GuardsAsCoded ==
    charge_rate > 0 => (SegGuarded /\ PriExact /\ GreedyExact)

\* The cursor positions from which a look-ahead of the priority scheduler's
\* history scanned past task x (a repeated charging step at one position
\* counts once).
ScannedFrom(x) ==
    {p_log[k].at : k \in {y \in 1..Len(p_log) :
                            /\ Scanned(p_log[y])
                            /\ p_log[y].at <= x /\ x < p_log[y].j}}

\* The scan iterations of a history: the tasks its look-aheads scanned past,
\* summed over the first k steps.
RECURSIVE ScanWork(_)
ScanWork(k) ==
    IF k = 0 THEN 0
    ELSE ScanWork(k - 1)
         + (IF Scanned(p_log[k]) THEN p_log[k].j - p_log[k].at ELSE 0)

\* No charge update of the history was rounded off its target.
Unrounded == \A k \in 1..Len(p_log) : p_log[k].err = 0

\* C30: the look-ahead work of one run of the priority scheduler is linear in
\* the number of tasks: each task is scanned by a number of charging steps
\* that does not grow with the number of tasks.  Without a health cap
\* (full_limit = 1) and without rounding a charging step charges for the
\* whole batch it scanned, so that number is one.  (Violated: a low task is
\* scanned and not charged for, so every charging step before it scans it
\* again; the last of n tasks can be scanned from n cursor positions.)
C30_LinearScan ==
    (charge_rate > 0 /\ full_limit = <<1, 1>> /\ Unrounded) =>
        \A x \in 1..n_tasks : Cardinality(ScannedFrom(x)) <= 1

\* The growth: the last task of the longest sequence has been scanned from
\* every cursor position, and the look-aheads have scanned n (n + 1) / 2 tasks.
C30_Growth ==
    /\ charge_rate > 0 /\ full_limit = <<1, 1>> /\ Unrounded
    /\ n_tasks = MaxTasks
    /\ Cardinality(ScannedFrom(n_tasks)) = n_tasks
    /\ 2 * ScanWork(Len(p_log)) = n_tasks * (n_tasks + 1)

\* What holds of C30 without a health cap and without rounding: tasks that
\* are all high are each scanned from one cursor position.
C30_LinearWhenAllHigh ==
    (/\ charge_rate > 0 /\ full_limit = <<1, 1>> /\ Unrounded
     /\ \A x \in 1..n_tasks : tasks[x].priority = "high") =>
        \A x \in 1..n_tasks : Cardinality(ScannedFrom(x)) <= 1
=============================================================================
